---- MODULE Spec2Model ----
(***************************************************************************)
(* Model of the `aicode` package initializer (src/src/aicode/__init__.py). *)
(*                                                                         *)
(* The module body is executed statement by statement when an importer     *)
(* runs `import aicode` and the module is not in sys.modules.  Its last    *)
(* statement asks importlib.metadata for the version of the distribution   *)
(* 'aiCode' and binds the answer to __version__.  The installed-package    *)
(* metadata lives outside the process and may change at any moment.        *)
(***************************************************************************)
EXTENDS Naturals, Sequences, FiniteSets

VARIABLES
    installed,  \* metadata provider: installed distribution name -> recorded version
    pc,         \* position of the module body: "unloaded", "L1".."L12", "loaded", "failed"
    ns,         \* the module's namespace: bound name -> value
    raised,     \* what the latest `import aicode` statement raised ("none" if nothing)
    imports,    \* `import aicode` statements run by this process
    failures,   \* how many of them raised
    calls,      \* provider queries made by the current module initialization
    observed,   \* results of the consumers' reads of aicode.__version__
    log         \* the last completed lookups: provider state seen, and the outcome

vars == <<installed, pc, ns, raised, imports, failures, calls, observed, log>>

(***************************************************************************)
(* Bounds of the model.                                                    *)
(***************************************************************************)
MaxImports == 3
MaxReads == 2

\* Distributions the environment may hold, and the version strings it may
\* record for them.  The provider gives no guarantee of a format, so the
\* strings include ones a version parser would rewrite, and the empty one.
Distributions == {"aiCode", "other"}
Versions == {"1.2.3", "1.02.3", ""}

(***************************************************************************)
(* Values of the program.                                                  *)
(***************************************************************************)
distribution_name == "aiCode"

__all__ == <<"__version__">>

PackageNotFoundError == "PackageNotFoundError"

AttributeError == "AttributeError"

\* f with name n (re)bound to v, as an assignment in a namespace does.
Bind(f, n, v) == [m \in (DOMAIN f) \cup {n} |-> IF m = n THEN v ELSE f[m]]

\* f without the name n.
Unbind(f, n) == [m \in (DOMAIN f) \ {n} |-> f[m]]

Returned(v) == [kind |-> "value", value |-> v]

Raised(e) == [kind |-> "error", value |-> e]

\* importlib.metadata.version under a stale negative cache: once a lookup
\* has failed in this process, it keeps failing.
versionNegativelyCached(name) ==
    IF failures > 0 \/ name \notin DOMAIN installed
    THEN Raised(PackageNotFoundError)
    ELSE Returned(installed[name])

\* importlib.metadata.version(distribution_name): the recorded version of an
\* installed distribution, PackageNotFoundError for any other name.
version(name) ==
    IF name \in DOMAIN installed
    THEN Returned(installed[name])
    ELSE Raised(PackageNotFoundError)

\* The two most recent entries of a log.
Last2(s) == IF Len(s) > 2 THEN SubSeq(s, Len(s) - 1, Len(s)) ELSE s

(***************************************************************************)
(* Initial state: a fresh process, any metadata state.                     *)
(***************************************************************************)
Init ==
    /\ installed \in UNION {[D -> Versions] : D \in SUBSET Distributions}
    /\ pc = "unloaded"
    /\ ns = <<>>
    /\ raised = "none"
    /\ imports = 0
    /\ failures = 0
    /\ calls = <<>>
    /\ observed = <<>>
    /\ log = <<>>

(***************************************************************************)
(* The environment: distributions are installed, upgraded and removed.     *)
(***************************************************************************)
Install(d, v) ==
    /\ IF d \in DOMAIN installed THEN installed[d] # v ELSE TRUE
    /\ installed' = Bind(installed, d, v)
    /\ UNCHANGED <<pc, ns, raised, imports, failures, calls, observed, log>>

Uninstall(d) ==
    /\ d \in DOMAIN installed
    /\ installed' = Unbind(installed, d)
    /\ UNCHANGED <<pc, ns, raised, imports, failures, calls, observed, log>>

(***************************************************************************)
(* The importer.                                                           *)
(***************************************************************************)
\* `import aicode` with no module in sys.modules (never imported, or the
\* previous attempt raised and the module was dropped): a new module object
\* with an empty namespace starts executing the body.
ImportStart ==
    /\ pc \in {"unloaded", "failed"}
    /\ imports < MaxImports
    /\ pc' = "L1"
    /\ ns' = <<>>
    /\ raised' = "none"
    /\ imports' = imports + 1
    /\ calls' = <<>>
    /\ UNCHANGED <<installed, failures, observed, log>>

\* `import aicode` with the module in sys.modules: the body does not run.
ImportCached ==
    /\ pc = "loaded"
    /\ imports < MaxImports
    /\ imports' = imports + 1
    /\ UNCHANGED <<installed, pc, ns, raised, failures, calls, observed, log>>

(***************************************************************************)
(* The module body, one action per statement.                              *)
(***************************************************************************)
\* The docstring (the source quotes the package name in backquotes, which a
\* TLA+ string cannot hold).
Line1 ==
    /\ pc = "L1"
    /\ ns' = Bind(ns, "__doc__", "aicode package.")
    /\ pc' = "L4"
    /\ UNCHANGED <<installed, raised, imports, failures, calls, observed, log>>

Line4 ==
    /\ pc = "L4"
    /\ ns' = Bind(ns, "Sequence", "collections.abc.Sequence")
    /\ pc' = "L5"
    /\ UNCHANGED <<installed, raised, imports, failures, calls, observed, log>>

Line5 ==
    /\ pc = "L5"
    /\ ns' = Bind(ns, "version", "importlib.metadata.version")
    /\ pc' = "L6"
    /\ UNCHANGED <<installed, raised, imports, failures, calls, observed, log>>

Line6 ==
    /\ pc = "L6"
    /\ ns' = Bind(ns, "LiteralString", "typing.LiteralString")
    /\ pc' = "L9"
    /\ UNCHANGED <<installed, raised, imports, failures, calls, observed, log>>

\* __all__ exporting the imported helper as well.
Line9ExportingHelper ==
    /\ pc = "L9"
    /\ {"Sequence", "LiteralString"} \subseteq DOMAIN ns
    /\ ns' = Bind(ns, "__all__", <<"__version__", "version">>)
    /\ pc' = "L12"
    /\ UNCHANGED <<installed, raised, imports, failures, calls, observed, log>>

\* __all__: Sequence[LiteralString] = ('__version__',)
Line9 ==
    /\ pc = "L9"
    /\ {"Sequence", "LiteralString"} \subseteq DOMAIN ns
    /\ ns' = Bind(ns, "__all__", __all__)
    /\ pc' = "L12"
    /\ UNCHANGED <<installed, raised, imports, failures, calls, observed, log>>

\* The last statement: the provider is asked for `name` and answers
\* `reported`; with `outcome` a value the module binds it to __version__ and
\* the import returns, with `outcome` an error the import raises it and the
\* module is dropped from sys.modules.  `inst` is the provider state the
\* statement leaves.
Exec12(name, reported, outcome, inst) ==
    /\ pc = "L12"
    /\ "version" \in DOMAIN ns
    /\ calls' = Append(calls, [name |-> name, result |-> reported])
    /\ log' = Last2(Append(log, [state |-> installed, outcome |-> outcome]))
    /\ installed' = inst
    /\ IF outcome.kind = "value"
       THEN /\ ns' = Bind(ns, "__version__", outcome.value)
            /\ pc' = "loaded"
            /\ UNCHANGED <<raised, failures>>
       ELSE /\ pc' = "failed"
            /\ raised' = outcome.value
            /\ failures' = failures + 1
            /\ UNCHANGED ns
    /\ UNCHANGED <<imports, observed>>

\* The version parser's rewriting of a version string (PEP 440 form).
Normalised(v) == IF v = "1.02.3" THEN "1.2.3" ELSE v

\* Line 12 binding a parsed and re-rendered version.
Line12Normalising ==
    LET r == version(distribution_name)
    IN  Exec12(distribution_name, r,
               IF r.kind = "value" THEN Returned(Normalised(r.value)) ELSE r,
               installed)

\* Line 12 catching the provider's error and binding a placeholder.
Line12WithFallback ==
    LET r == version(distribution_name)
    IN  Exec12(distribution_name, r,
               IF r.kind = "value" THEN r ELSE Returned("unknown"),
               installed)

\* Line 12 leaving the lookup to the first read: the import returns with
\* nothing queried and nothing bound.
Line12Deferred ==
    /\ pc = "L12"
    /\ pc' = "loaded"
    /\ UNCHANGED <<installed, ns, raised, imports, failures, calls, observed, log>>

\* Line 12 with a lookup that registers the name it does not find.
Line12Registering ==
    LET r == version(distribution_name)
    IN  Exec12(distribution_name, r, r,
               IF r.kind = "value" THEN installed
               ELSE Bind(installed, distribution_name, ""))

\* Line 12 remembering an earlier failure of this process instead of asking
\* the provider again.
Line12Sticky ==
    LET r == IF failures > 0 THEN Raised(PackageNotFoundError)
             ELSE version(distribution_name)
    IN  Exec12(distribution_name, r, r, installed)

\* __version__: str = version(distribution_name='aiCode')
Line12 ==
    LET r == version(distribution_name)
    IN  Exec12(distribution_name, r, r, installed)

(***************************************************************************)
(* The consumers of a module whose import has returned.                    *)
(***************************************************************************)
\* A read of aicode.__version__ that asks the provider again and keeps the
\* fresh answer.
ReadRecomputing ==
    /\ pc = "loaded"
    /\ Len(observed) < MaxReads
    /\ LET r == version(distribution_name)
       IN  /\ ns' = IF r.kind = "value" THEN Bind(ns, "__version__", r.value) ELSE ns
           /\ observed' = Append(observed,
                  IF "__version__" \in DOMAIN ns' THEN ns'["__version__"]
                  ELSE AttributeError)
    /\ UNCHANGED <<installed, pc, raised, imports, failures, calls, log>>

\* A read of aicode.__version__: a plain lookup in the module's namespace
\* (the module defines no __getattr__), AttributeError for an unbound name.
Read ==
    /\ pc = "loaded"
    /\ Len(observed) < MaxReads
    /\ observed' = Append(observed,
           IF "__version__" \in DOMAIN ns THEN ns["__version__"]
           ELSE AttributeError)
    /\ UNCHANGED <<installed, pc, ns, raised, imports, failures, calls, log>>

\* The process ends and another one starts: nothing of the module survives.
Exit ==
    /\ pc \in {"loaded", "failed"}
    /\ pc' = "unloaded"
    /\ ns' = <<>>
    /\ raised' = "none"
    /\ imports' = 0
    /\ failures' = 0
    /\ calls' = <<>>
    /\ observed' = <<>>
    /\ UNCHANGED <<installed, log>>

Next ==
    \/ \E d \in Distributions, v \in Versions : Install(d, v)
    \/ \E d \in Distributions : Uninstall(d)
    \/ ImportStart
    \/ ImportCached
    \/ Line1
    \/ Line4
    \/ Line5
    \/ Line6
    \/ Line9
    \/ Line12
    \/ Read
    \/ Exit

Spec == Init /\ [][Next]_vars

(***************************************************************************)
(* Properties.                                                             *)
(***************************************************************************)
Executing == pc \in {"L1", "L4", "L5", "L6", "L9", "L12"}

\* C1: whenever the provider records a version v for 'aiCode', the last
\* statement ends the initialization successfully with __version__ equal to
\* exactly v (nothing parsed, normalised or substituted), and the only name
\* the module ever asks the provider for is the literal 'aiCode'.
C1_VersionForwardedVerbatim ==
    /\ [][(pc = "L12" /\ pc' # pc /\ "aiCode" \in DOMAIN installed)
             => /\ pc' = "loaded"
                /\ "__version__" \in DOMAIN ns'
                /\ ns'["__version__"] = installed["aiCode"]
                /\ raised' = "none"]_vars
    /\ [][pc' = "loaded" => pc \in {"L12", "loaded"}]_vars
    /\ [](\A i \in 1..Len(calls) : calls[i].name = "aiCode")

\* C1 witness: an initialization that ended with a version string no
\* version parser would have left alone.
C1_Witness ==
    /\ pc = "loaded"
    /\ ns["__version__"] = "1.02.3"
    /\ calls = <<[name |-> "aiCode", result |-> Returned("1.02.3")]>>

\* C2: when 'aiCode' is not installed, the last statement ends the
\* initialization failed with the provider's PackageNotFoundError, and
\* __version__ is bound in no state but that of a successful initialization:
\* in particular a failed one holds no placeholder or default.
C2_NotInstalledFails ==
    /\ [][(pc = "L12" /\ pc' # pc /\ "aiCode" \notin DOMAIN installed)
             => /\ pc' = "failed"
                /\ raised' = PackageNotFoundError
                /\ "__version__" \notin DOMAIN ns']_vars
    /\ [](pc = "failed" => raised = PackageNotFoundError)
    /\ []("__version__" \in DOMAIN ns => pc = "loaded")

\* C2 witness: a failed initialization, the distribution still missing.
C2_Witness ==
    /\ pc = "failed"
    /\ "aiCode" \notin DOMAIN installed
    /\ raised = PackageNotFoundError
    /\ "__version__" \notin DOMAIN ns

\* C3: after a successful initialization no step rebinds __version__, and
\* every read returns the value bound at initialization, whatever happens to
\* the installed metadata meanwhile.
C3_NeverRebound ==
    /\ [][(pc = "loaded" /\ pc' = "loaded")
             => ns'["__version__"] = ns["__version__"]]_vars
    /\ [](pc = "loaded" =>
            \A i \in 1..Len(observed) :
                /\ observed[i] = ns["__version__"]
                /\ observed[i] = calls[1].result.value)

\* C3 witness: two reads of a loaded module whose distribution has since
\* been upgraded or removed.
C3_Witness ==
    /\ pc = "loaded"
    /\ Len(observed) >= 2
    /\ IF "aiCode" \in DOMAIN installed
       THEN installed["aiCode"] # ns["__version__"]
       ELSE TRUE

\* C4: in every state of a successfully initialized module, __all__ is
\* exactly the one-element tuple ('__version__',) and the name it lists is
\* bound in the module.
C4_ExportList ==
    pc = "loaded" =>
        /\ "__all__" \in DOMAIN ns
        /\ ns["__all__"] = <<"__version__">>
        /\ \A i \in 1..Len(ns["__all__"]) : ns["__all__"][i] \in DOMAIN ns

\* C4 witness: a module loaded by the first import of its process.
C4_Witness ==
    /\ pc = "loaded"
    /\ imports = 1
    /\ Len(ns["__all__"]) = 1

\* C5: an initialization queries the provider exactly once, at its last
\* statement; a module whose import has returned has __version__ bound, no
\* read ever finds it unbound, and neither reads nor further imports of the
\* loaded module add a query.
C5_QueriedOnceBeforeUse ==
    /\ (Executing \/ pc = "unloaded") => Len(calls) = 0
    /\ (pc \in {"loaded", "failed"}) => Len(calls) = 1
    /\ (pc = "loaded") => "__version__" \in DOMAIN ns
    /\ (Len(observed) > 0) => pc = "loaded"
    /\ \A i \in 1..Len(observed) : observed[i] # AttributeError

\* C5 witness: a loaded module that was read and imported again, with its
\* single query on record.
C5_Witness ==
    /\ pc = "loaded"
    /\ Len(observed) >= 1
    /\ imports >= 2
    /\ failures = 0
    /\ Len(calls) = 1

\* C6: no step of the import or of the module body changes the provider's
\* state, whether the initialization succeeds or fails.
C6_LookupIsPureRead ==
    [][(pc' # pc /\ (Executing \/ pc' = "L1")) => installed' = installed]_vars

\* C6 witness: a failed initialization that left the provider as its query
\* found it.
C6_Witness ==
    /\ pc = "failed"
    /\ Len(log) >= 1
    /\ log[Len(log)].state = installed

C8_FailureNotSticky ==
    /\ [][(failures > 0 /\ pc = "L12" /\ pc' # pc /\ "aiCode" \in DOMAIN installed)
             => /\ pc' = "loaded"
                /\ ns'["__version__"] = installed["aiCode"]
                /\ calls' = <<[name |-> "aiCode",
                               result |-> Returned(installed["aiCode"])]>>]_vars
    /\ [][(pc = "failed" /\ pc' # pc) => (pc' \in {"L1", "unloaded"} /\ ns' = <<>>)]_vars
    /\ [](pc = "failed" =>
            /\ "__all__" \in DOMAIN ns
            /\ ns["__all__"] = <<"__version__">>
            /\ "__version__" \notin DOMAIN ns)

\* C8 witness: a module loaded in a process in which an earlier import of it
\* failed.
C8_Witness ==
    /\ pc = "loaded"
    /\ failures >= 1
    /\ "__version__" \in DOMAIN ns

====
